---------------------------- MODULE Spec2Model ----------------------------
(***************************************************************************)
(* A model of the PRV tools: csv_to_prv.py (the converter: fmt_exp_field,  *)
(* load_layout, place_into_line, convert) and compare.py (parse_records).  *)
(*                                                                         *)
(* Text is modelled as a sequence of one-character strings, so that        *)
(* padding, truncation, splitting and column placement are computed        *)
(* character by character as the Python code computes them.  A CSV field   *)
(* is such a sequence, or NoneVal for a field csv.DictReader fills with    *)
(* None (a row shorter than the header line).                              *)
(***************************************************************************)
EXTENDS Integers, Sequences, FiniteSets, TLC

VARIABLES
    csvExists,     \* csv_path.exists()
    layoutExists,  \* layout_path.exists()
    layout,        \* the parsed layout document (json.loads)
    outFile,       \* the output file: NoFile, or the sequence of its lines
    pc,            \* where convert() is
    ret,           \* convert()'s return value, NoRet until it returns
    groups,        \* defaultdict(int): key pair -> count
    row,           \* the row the for loop holds
    row_count,     \* rows fully written
    msg_index,     \* groups[key] of the current row
    dt_date,       \* date token of the current row
    dt_time,       \* time token of the current row
    sens_idx,      \* next sensor to place (0-based, as in the code)
    li,            \* next schema line
    rowsSeen,      \* history: the rows the reader has yielded, in order
    lineTags,      \* history: for each line written, the row it belongs to, the
                   \* code that wrote it and the sensors placed on it
    call,          \* a direct call of one function: its name and arguments
    result         \* what that call returned

mainVars == <<csvExists, layoutExists, layout, outFile, pc, ret, groups, row,
              row_count, msg_index, dt_date, dt_time, sens_idx, li,
              rowsSeen, lineTags>>
unitVars == <<call, result>>
vars == <<csvExists, layoutExists, layout, outFile, pc, ret, groups, row,
          row_count, msg_index, dt_date, dt_time, sens_idx, li,
          rowsSeen, lineTags, call, result>>

----------------------------------------------------------------------------
(* Python's str operations, on sequences of characters.                    *)

NoneVal == <<"<None>">>

\* str(x) of a CSV field: str(None) is the text None
Str(v) == IF v = NoneVal THEN <<"N","o","n","e">> ELSE v

Rep(c, n) == [i \in 1..n |-> c]

IsSpace(c) == c \in {" ", "\t"}

IsDigitChar(c) == c \in {"0", "1", "2", "3", "4", "5", "6", "7", "8", "9"}

\* s[i:] with Python's handling of a negative or too large i
PySliceFrom(s, i) ==
    LET start == IF i < 0 THEN (IF Len(s) + i < 0 THEN 0 ELSE Len(s) + i)
                          ELSE (IF i > Len(s) THEN Len(s) ELSE i)
    IN SubSeq(s, start + 1, Len(s))

\* s[:j] with Python's handling of a negative or too large j
PySliceTo(s, j) ==
    LET end == IF j < 0 THEN (IF Len(s) + j < 0 THEN 0 ELSE Len(s) + j)
                        ELSE (IF j > Len(s) THEN Len(s) ELSE j)
    IN SubSeq(s, 1, end)

\* s.rjust(w)
RJust(s, w) == IF Len(s) >= w THEN s ELSE Rep(" ", w - Len(s)) \o s

\* s.ljust(w)
LJust(s, w) == IF Len(s) >= w THEN s ELSE s \o Rep(" ", w - Len(s))

\* s.zfill(w): zeros go after a leading sign
ZFill(s, w) ==
    IF Len(s) >= w THEN s
    ELSE IF Len(s) > 0 /\ s[1] \in {"+", "-"}
         THEN <<s[1]>> \o Rep("0", w - Len(s)) \o Tail(s)
         ELSE Rep("0", w - Len(s)) \o s

RECURSIVE LStrip(_)
LStrip(s) == IF s # <<>> /\ IsSpace(s[1]) THEN LStrip(Tail(s)) ELSE s

RECURSIVE RStrip(_)
RStrip(s) ==
    IF s # <<>> /\ IsSpace(s[Len(s)]) THEN RStrip(SubSeq(s, 1, Len(s) - 1)) ELSE s

\* s.strip()
Strip(s) == RStrip(LStrip(s))

\* s.split(sep) for a one-character sep: empty parts are kept
RECURSIVE SplitOn(_, _)
SplitOn(s, sep) ==
    IF \A i \in 1..Len(s) : s[i] # sep THEN <<s>>
    ELSE LET p == CHOOSE i \in 1..Len(s) : s[i] = sep /\ \A j \in 1..(i-1) : s[j] # sep
         IN <<SubSeq(s, 1, p - 1)>> \o SplitOn(SubSeq(s, p + 1, Len(s)), sep)

\* s.split(): split on runs of whitespace, no empty parts
RECURSIVE SplitWs(_)
SplitWs(s) ==
    LET t == LStrip(s) IN
    IF t = <<>> THEN <<>>
    ELSE IF \A i \in 1..Len(t) : ~IsSpace(t[i]) THEN <<t>>
    ELSE LET p == CHOOSE i \in 1..Len(t) : IsSpace(t[i]) /\ \A j \in 1..(i-1) : ~IsSpace(t[j])
         IN <<SubSeq(t, 1, p - 1)>> \o SplitWs(SubSeq(t, p + 1, Len(t)))

\* sep.join(parts) for a one-character sep
RECURSIVE Join(_, _)
Join(parts, sep) ==
    IF parts = <<>> THEN <<>>
    ELSE IF Len(parts) = 1 THEN parts[1]
    ELSE parts[1] \o <<sep>> \o Join(Tail(parts), sep)

DigitChar(d) == <<"0", "1", "2", "3", "4", "5", "6", "7", "8", "9">>[d + 1]

DigitVal(c) == CHOOSE d \in 0..9 : DigitChar(d) = c

\* str(n) of a non-negative int
RECURSIVE IntToStr(_)
IntToStr(n) == IF n < 10 THEN <<DigitChar(n)>> ELSE IntToStr(n \div 10) \o <<DigitChar(n % 10)>>

----------------------------------------------------------------------------
(* float(val), line 34.  A float is modelled as one of                     *)
(*   [kind |-> "err"]   float() raises ValueError                          *)
(*   [kind |-> "nan"], [kind |-> "inf", neg], [kind |-> "zero"]            *)
(*   [kind |-> "fin", neg, m, e]   the value (-1)^neg * m * 10^e, m > 0    *)
(* The grammar read is float()'s: surrounding whitespace, a sign, then     *)
(* inf / infinity / nan in any case, or a decimal with an optional         *)
(* exponent.  Up to 9 significant digits are carried exactly.              *)

Lower(c) ==
    CASE c = "I" -> "i" [] c = "N" -> "n" [] c = "F" -> "f" [] c = "A" -> "a"
      [] c = "T" -> "t" [] c = "Y" -> "y" [] c = "E" -> "e" [] OTHER -> c

LowerStr(s) == [i \in 1..Len(s) |-> Lower(s[i])]

\* the value of a string of digits, saturating at cap
RECURSIVE DigitsToInt(_, _, _)
DigitsToInt(s, acc, cap) ==
    IF s = <<>> THEN acc
    ELSE IF acc * 10 + DigitVal(s[1]) > cap THEN cap
    ELSE DigitsToInt(Tail(s), acc * 10 + DigitVal(s[1]), cap)

RECURSIVE NumDigits(_)
NumDigits(n) == IF n < 10 THEN 1 ELSE 1 + NumDigits(n \div 10)

AllDigits(s) == \A i \in 1..Len(s) : IsDigitChar(s[i])

\* the position of the exponent letter, 0 when there is none
EPos(b) ==
    IF \E i \in 1..Len(b) : b[i] = "e"
    THEN CHOOSE i \in 1..Len(b) : b[i] = "e" /\ \A j \in 1..(i-1) : b[j] # "e"
    ELSE 0

MantPart(b) == IF EPos(b) = 0 THEN b ELSE SubSeq(b, 1, EPos(b) - 1)

\* the exponent with its letter; empty when there is none
ExpPart(b) == IF EPos(b) = 0 THEN <<>> ELSE SubSeq(b, EPos(b), Len(b))

DotPos(mant) ==
    IF \E i \in 1..Len(mant) : mant[i] = "."
    THEN CHOOSE i \in 1..Len(mant) : mant[i] = "." /\ \A j \in 1..(i-1) : mant[j] # "."
    ELSE Len(mant) + 1

IntPart(mant) == SubSeq(mant, 1, DotPos(mant) - 1)

FracPart(mant) == SubSeq(mant, DotPos(mant) + 1, Len(mant))

OkMant(mant) ==
    /\ AllDigits(IntPart(mant))
    /\ AllDigits(FracPart(mant))
    /\ Len(IntPart(mant)) + Len(FracPart(mant)) >= 1

\* the digits of an exponent e[+-]ddd
ExpDigits(x) == IF Len(x) >= 2 /\ x[2] \in {"+", "-"} THEN SubSeq(x, 3, Len(x)) ELSE Tail(x)

OkExp(x) == x = <<>> \/ (ExpDigits(x) # <<>> /\ AllDigits(ExpDigits(x)))

ExpVal(x) ==
    IF x = <<>> THEN 0
    ELSE IF Len(x) >= 2 /\ x[2] = "-" THEN 0 - DigitsToInt(ExpDigits(x), 0, 9999)
    ELSE DigitsToInt(ExpDigits(x), 0, 9999)

\* the float m * 10^e: beyond the range of a double it is inf or 0.0
MakeFloat(m, e, neg) ==
    IF m = 0 THEN [kind |-> "zero"]
    ELSE IF NumDigits(m) + e > 309 THEN [kind |-> "inf", neg |-> neg]
    ELSE IF NumDigits(m) + e < -323 THEN [kind |-> "zero"]
    ELSE [kind |-> "fin", neg |-> neg, m |-> m, e |-> e]

ParseDecimal(mant, expo, neg) ==
    IF ~(OkMant(mant) /\ OkExp(expo)) THEN [kind |-> "err"]
    ELSE MakeFloat(DigitsToInt(IntPart(mant) \o FracPart(mant), 0, 999999999),
                   ExpVal(expo) - Len(FracPart(mant)), neg)

ParseUnsigned(b, neg) ==
    IF b \in {<<"i","n","f">>, <<"i","n","f","i","n","i","t","y">>} THEN [kind |-> "inf", neg |-> neg]
    ELSE IF b = <<"n","a","n">> THEN [kind |-> "nan"]
    ELSE ParseDecimal(MantPart(b), ExpPart(b), neg)

ParseSigned(t) ==
    ParseUnsigned(IF t # <<>> /\ t[1] \in {"+", "-"} THEN Tail(t) ELSE t,
                  t # <<>> /\ t[1] = "-")

FloatOf(val) == ParseSigned(LowerStr(Strip(Str(val))))

----------------------------------------------------------------------------
(* fmt_exp_field, lines 28-55.                                             *)

\* lines 35-36: float() raised
ZeroIfErr(f) == IF f.kind = "err" THEN [kind |-> "zero"] ELSE f

\* lines 30-36: mant
Mant(val) ==
    IF val = NoneVal \/ Strip(Str(val)) = <<>> THEN [kind |-> "zero"]
    ELSE ZeroIfErr(FloatOf(val))

\* lines 44-45: while a >= 10.0: a /= 10.0; exp += 1
\* (m * 10^e >= 10 exactly when NumDigits(m) + e >= 2)
RECURSIVE DivLoop(_, _, _)
DivLoop(m, e, exp) ==
    IF NumDigits(m) + e >= 2 THEN DivLoop(m, e - 1, exp + 1) ELSE <<e, exp>>

\* lines 46-47: while a < 0.1 and a != 0.0: a *= 10.0; exp -= 1
\* (m * 10^e < 0.1 exactly when NumDigits(m) + e <= -1)
RECURSIVE MulLoop(_, _, _)
MulLoop(m, e, exp) ==
    IF NumDigits(m) + e <= -1 THEN MulLoop(m, e + 1, exp - 1) ELSE <<e, exp>>

\* 10^n
RECURSIVE Pow10(_)
Pow10(n) == IF n <= 0 THEN 1 ELSE 10 * Pow10(n - 1)

\* m / p rounded to an integer, ties to even
RoundDiv(m, p) ==
    IF 2 * (m % p) > p \/ (2 * (m % p) = p /\ (m \div p) % 2 = 1)
    THEN (m \div p) + 1 ELSE m \div p

\* the decimal text of scaled / 10^5 with 5 digits after the point
Fixed5Text(scaled) ==
    IntToStr(scaled \div 100000) \o <<".">> \o ZFill(IntToStr(scaled % 100000), 5)

\* line 48: f"{a:.5f}" for a = m * 10^e in [0.1, 10): a rounded to 5 decimals
Fixed5(m, e) ==
    Fixed5Text(IF e + 5 >= 0 THEN m * Pow10(e + 5) ELSE RoundDiv(m, Pow10(0 - (e + 5))))

\* lines 49-50
DropLeadingZero(mantissa) == IF mantissa[1] = "0" THEN Tail(mantissa) ELSE mantissa

\* lines 51-52
Token(neg, mantissa, exp) ==
    (IF neg THEN <<"-">> ELSE <<>>) \o mantissa \o <<"E">>
        \o (IF exp >= 0 THEN <<"+">> ELSE <<"-">>)
        \o IntToStr(IF exp >= 0 THEN exp ELSE 0 - exp)

\* lines 48-52, a and exp as the second loop left them
AfterMul(neg, m, u) == Token(neg, DropLeadingZero(Fixed5(m, u[1])), u[2])

\* lines 46-52, a and exp as the first loop left them
AfterDiv(neg, m, d) == AfterMul(neg, m, MulLoop(m, d[1], d[2]))

\* lines 38-52: the token before the width is applied; a value that is
\* infinite never leaves the loop of line 44 (inf / 10.0 is inf), and
\* f"{a:.5f}" of a NaN is the text nan
Rendered(mant) ==
    IF mant.kind = "zero" THEN [tag |-> "ret", text |-> <<".","0","0","0","0","0","E","+","0">>]
    ELSE IF mant.kind = "inf" THEN [tag |-> "hang"]
    ELSE IF mant.kind = "nan" THEN [tag |-> "ret", text |-> <<"n","a","n","E","+","0">>]
    ELSE [tag |-> "ret", text |-> AfterDiv(mant.neg, mant.m, DivLoop(mant.m, mant.e, 0))]

\* lines 53-55
ApplyWidth(rep, width) ==
    RJust(IF Len(rep) > width THEN PySliceFrom(rep, 0 - width) ELSE rep, width)

\* lines 53-55 of a token that was rendered
WithWidth(r, width) ==
    IF r.tag = "hang" THEN r ELSE [tag |-> "ret", text |-> ApplyWidth(r.text, width)]

FmtExpField(val, width) == WithWidth(Rendered(Mant(val)), width)

----------------------------------------------------------------------------
(* place_into_line, lines 64-72.  buf is a Python list: an index from      *)
(* -len(buf) to -1 counts from the end, any other index outside the list   *)
(* raises IndexError.                                                      *)

\* lines 71-72: for i, ch in enumerate(s): buf[start - 1 + i] = ch
RECURSIVE StoreChars(_, _, _, _)
StoreChars(buf, s, i, start) ==
    IF i >= Len(s) THEN [tag |-> "ret", buf |-> buf]
    ELSE LET j == start - 1 + i
             L == Len(buf)
         IN IF j >= L \/ j < 0 - L THEN [tag |-> "raise", exc |-> "IndexError"]
            ELSE LET pos == IF j < 0 THEN L + j + 1 ELSE j + 1
                 IN StoreChars([buf EXCEPT ![pos] = s[i + 1]], s, i + 1, start)

\* Fitted as it would be if it cut a long text the way fmt_exp_field does,
\* keeping its last characters
FittedKeepsEnd(s, width) ==
    RJust(IF Len(s) > width THEN PySliceFrom(s, 0 - width) ELSE s, width)

\* lines 68-70
Fitted(s, width) == RJust(IF Len(s) > width THEN PySliceTo(s, width) ELSE s, width)

PlaceIntoLine(buf, span, text) ==
    StoreChars(buf, Fitted(Str(text), span[2] - span[1] + 1), 0, span[1])

----------------------------------------------------------------------------
(* convert, lines 108-121: the date and time tokens of a row.              *)

FallbackDate == <<"0","0","0","0","-","0","0","-","0","0">>
FallbackTime == <<"0","0",":","0","0",":","0","0">>

\* lines 115-119
TimeToken(timepart) ==
    LET hhmm == SplitOn(timepart, ":")
    IN IF Len(hhmm) = 2
       THEN ZFill(hhmm[1], 2) \o <<":">> \o ZFill(hhmm[2], 2) \o <<":","0","0">>
       ELSE Join([i \in 1..Len(hhmm) |-> ZFill(hhmm[i], 2)], ":")

\* line 114
DateToken(d, m, y) == ZFill(y, 4) \o <<"-">> \o ZFill(m, 2) \o <<"-">> \o ZFill(d, 2)

\* FromDateParts as it would be if the time were unpacked as hour and minute
\* after the date token is set: a ValueError then leaves the time as it was
FromDatePartsStrict(dmy, timepart) ==
    IF Len(dmy) # 3
    THEN [date |-> FallbackDate, time |-> FallbackTime]
    ELSE [date |-> DateToken(dmy[1], dmy[2], dmy[3]),
          time |-> IF Len(SplitOn(timepart, ":")) = 2 THEN TimeToken(timepart)
                   ELSE FallbackTime]

\* lines 113-119: d, m, y = datepart.split('/') and what follows it
FromDateParts(dmy, timepart) ==
    IF Len(dmy) # 3
    THEN [date |-> FallbackDate, time |-> FallbackTime]
    ELSE [date |-> DateToken(dmy[1], dmy[2], dmy[3]), time |-> TimeToken(timepart)]

\* lines 112-119: datepart, timepart = msgdate.split() and what follows it
FromParts(parts) ==
    IF Len(parts) # 2
    THEN [date |-> FallbackDate, time |-> FallbackTime]
    ELSE FromDateParts(SplitOn(parts[1], "/"), parts[2])

\* lines 109-121: a ValueError of an unpacking leaves both tokens as line 109 set them
ParseMsgDate(msgdate) ==
    IF msgdate = NoneVal \/ msgdate = <<>>
    THEN [date |-> FallbackDate, time |-> FallbackTime]
    ELSE FromParts(SplitWs(msgdate))

----------------------------------------------------------------------------
(* convert, lines 95-104: the key and the header of a row.                 *)

SENSOR_COUNT == 22

\* Key as it would be if rows were grouped by the identifiers as the header
\* shows them, zero-padded
KeyPadded(r) == <<ZFill(Strip(r.Program), 5), ZFill(Strip(r.PTT), 6)>>

\* line 95: None.strip() raises AttributeError
KeyRaises(r) == r.Program = NoneVal \/ r.PTT = NoneVal

Key(r) == <<Strip(r.Program), Strip(r.PTT)>>

\* lines 99-104
Header(r, index) ==
    LET program    == ZFill(Str(r.Program), 5)
        ptt        == ZFill(Str(r.PTT), 6)
        msg_idx_s  == RJust(IntToStr(index), 3)
        sensor_cnt == RJust(IntToStr(SENSOR_COUNT), 2)
        sat        == LJust(Strip(Str(r.Satellite)), 1)
    IN program \o <<" ">> \o ptt \o <<" "," ">> \o msg_idx_s \o <<" ">> \o sensor_cnt \o <<" ">> \o sat

\* line 107: the sensor readings of a row
Sensors(r) == [i \in 1..SENSOR_COUNT |-> r.sensors[i]]

----------------------------------------------------------------------------
(* The layout document, lines 87-88, 126 and 148.                          *)

DefaultLineLength == 78

LineLength(lay) == IF "line_length" \in DOMAIN lay THEN lay.line_length ELSE DefaultLineLength

\* line 88
LineSpans(lay) ==
    IF "lines" \in DOMAIN lay
    THEN [i \in 1..Len(lay.lines) |-> lay.lines[i].common_spans]
    ELSE <<>>

\* line 149
FallbackSpans == <<<<7, 16>>, <<18, 25>>, <<28, 36>>, <<37, 45>>, <<46, 54>>, <<55, 63>>>>

----------------------------------------------------------------------------
(* convert, lines 133-143 and 150-159: the sensors of one continuation     *)
(* line.  Returns the buffer, the new sens_idx and the sensors placed, or  *)
(* how the loop was left otherwise.                                        *)

\* lines 136-137 and 154-155
ZeroIfMissing(v) == IF v = NoneVal \/ v = <<>> THEN <<"0">> ELSE v

RECURSIVE FillSpans(_, _, _, _, _)

\* NextSpan as it would be if sens_idx were advanced twice
NextSpanSkips(p, spans, sensors, idx, done) ==
    IF p.tag = "raise" THEN p
    ELSE FillSpans(p.buf, Tail(spans), sensors, idx + 2,
                   Append(done, [sensor |-> idx + 1, span |-> spans[1]]))

\* lines 141 and 159, unless place_into_line raised
NextSpan(p, spans, sensors, idx, done) ==
    IF p.tag = "raise" THEN p
    ELSE FillSpans(p.buf, Tail(spans), sensors, idx + 1,
                   Append(done, [sensor |-> idx + 1, span |-> spans[1]]))

\* lines 140 and 158, unless fmt_exp_field never returned
PlaceSensor(buf, spans, sensors, idx, done, txt) ==
    IF txt.tag = "hang" THEN txt
    ELSE NextSpan(PlaceIntoLine(buf, spans[1], txt.text), spans, sensors, idx, done)

FillSpans(buf, spans, sensors, idx, done) ==
    IF spans = <<>> \/ idx >= Len(sensors)
    THEN [tag |-> "ret", buf |-> buf, sens_idx |-> idx, placed |-> done]
    ELSE PlaceSensor(buf, spans, sensors, idx, done,
                     FmtExpField(ZeroIfMissing(sensors[idx + 1]),
                                 spans[1][2] - spans[1][1] + 1))

\* line 131
Comp(r) == IF r.Compression = NoneVal \/ r.Compression = <<>> THEN <<"1">> ELSE r.Compression

\* one more place_into_line on a buffer, unless an earlier one raised
ThenPlace(p, span, text) == IF p.tag = "raise" THEN p ELSE PlaceIntoLine(p.buf, span, text)

\* lines 128-132: the stamp of the first schema line
Stamp(buf, r, date, time) ==
    ThenPlace(ThenPlace(PlaceIntoLine(buf, <<7, 16>>, date), <<18, 25>>, time),
              <<28, 28>>, Comp(r))

\* lines 133-143, unless the stamp raised
ThenFill(st, spans, sensors, idx) ==
    IF st.tag = "raise" THEN st ELSE FillSpans(st.buf, spans, sensors, idx, <<>>)

\* lines 126-143: one schema line
SchemaLineOf(lay, r, date, time, lineNo, idx) ==
    ThenFill(IF lineNo = 0 THEN Stamp(Rep(" ", LineLength(lay)), r, date, time)
                           ELSE [tag |-> "ret", buf |-> Rep(" ", LineLength(lay))],
             LineSpans(lay)[lineNo + 1], Sensors(r), idx)

\* lines 148-159: one fallback line
FallbackLineOf(lay, r, idx) ==
    FillSpans(Rep(" ", LineLength(lay)), FallbackSpans, Sensors(r), idx, <<>>)

\* lines 144 and 160: ''.join(buf).rstrip()
Written(buf) == RStrip(buf)

----------------------------------------------------------------------------
(* The inputs of a run: the rows csv.DictReader yields and the layout      *)
(* document.                                                               *)

MaxRows == 3          \* rows read in one run
MaxSchemaLines == 2   \* lines of a generated layout

Cycle(vals, last) ==
    [i \in 1..SENSOR_COUNT |-> IF i = SENSOR_COUNT THEN last
                                ELSE vals[((i - 1) % Len(vals)) + 1]]

\* the row of the end-to-end scenario
RowScenario ==
    [Program |-> <<"1","2","3">>, PTT |-> <<"4","5">>, Satellite |-> <<"A">>,
     MessageDate |-> <<"0","1","/","0","2","/","2","0","2","0"," ","1","3",":","0","5">>, Compression |-> <<"2">>,
     sensors |-> Cycle(<<<<"3",".","1","4">>, <<"-","2","5","0">>, <<"0",".","0","0","5">>, <<"9",".","9","9","9","9","9","6">>, <<"1","2">>>>, <<"0">>)]

\* the same key once stripped; blank and unparseable values
RowBlank ==
    [Program |-> <<" ","1","2","3">>, PTT |-> <<"4","5"," ">>, Satellite |-> <<>>,
     MessageDate |-> <<>>, Compression |-> <<>>,
     sensors |-> Cycle(<<<<>>, <<"a","b","c">>, NoneVal, <<"-","0",".","0","0","0","1","2","3">>>>, NoneVal)]

\* another key with the same zero-padded identifiers; a date that does not split on /
RowOther ==
    [Program |-> <<"1","2","3">>, PTT |-> <<"0","4","5">>, Satellite |-> NoneVal,
     MessageDate |-> <<"2","0","2","0","-","0","2","-","0","1"," ","1","3",":","0","5",":","0","9">>, Compression |-> NoneVal,
     sensors |-> Cycle(<<<<"n","a","n">>, <<"1","e","5">>, <<"0",".","0","9">>>>, <<"7">>)]

\* a row shorter than the header line: the fields after Program are None
RowShort ==
    [Program |-> <<"7">>, PTT |-> NoneVal, Satellite |-> NoneVal,
     MessageDate |-> NoneVal, Compression |-> NoneVal,
     sensors |-> [i \in 1..SENSOR_COUNT |-> NoneVal]]

\* a reading that float() takes for infinity
RowInf ==
    [Program |-> <<"7">>, PTT |-> <<"4","5">>, Satellite |-> <<"B">>,
     MessageDate |-> <<"1","/","2","/","2","0"," ","3",":","5",":","7">>, Compression |-> <<"3">>,
     sensors |-> [i \in 1..SENSOR_COUNT |-> IF i = 9 THEN <<"i","n","f">> ELSE <<"1">>]]

Rows == {RowScenario, RowBlank, RowOther, RowShort, RowInf}

NoSpans == <<>>
FourSpans == <<<<29, 38>>, <<40, 49>>, <<51, 60>>, <<62, 71>>>>
TwelveSpans == [k \in 1..12 |-> <<25 + 4 * k, 28 + 4 * k>>]
OverflowSpans == <<<<29, 38>>, <<70, 80>>>>

SpanLists == {NoSpans, FourSpans, TwelveSpans, OverflowSpans}

RECURSIVE SeqsUpTo(_, _)
SeqsUpTo(S, n) ==
    IF n = 0 THEN {<<>>}
    ELSE LET shorter == SeqsUpTo(S, n - 1)
         IN shorter \cup {Append(s, x) : s \in shorter, x \in S}

GeneratedLayouts ==
    {[most_common_cont_lines |-> 6,
      lines |-> [i \in 1..Len(ls) |-> [common_spans |-> ls[i]]]] :
        ls \in SeqsUpTo(SpanLists, MaxSchemaLines)}

\* a document with neither lines nor line_length
LayDefault == [most_common_cont_lines |-> 6]

\* a line shorter than the fallback spans
LayShort == [line_length |-> 60, most_common_cont_lines |-> 6,
             lines |-> <<[common_spans |-> <<<<29, 38>>>>]>>]

\* the same with no lines
LayNarrow == [line_length |-> 60, most_common_cont_lines |-> 6]

Layouts == GeneratedLayouts \cup {LayDefault, LayShort, LayNarrow}

\* what the output path holds before the run
OldFile == [exists |-> TRUE, lines |-> <<<<"0","0","0","0","1"," ","0","0","0","0","0","1"," "," "," "," ","1"," ","2","2"," ","Z">>>>]
NoFile == [exists |-> FALSE, lines |-> <<>>]

----------------------------------------------------------------------------
(* convert, lines 75-164, one action for each stretch of code between two  *)
(* writes of the output.                                                   *)

Init ==
    /\ csvExists \in BOOLEAN
    /\ layoutExists \in BOOLEAN
    /\ layout \in Layouts
    /\ outFile \in {NoFile, OldFile}
    /\ pc = "start"
    /\ ret = -1
    /\ groups = <<>>
    /\ row = RowScenario
    /\ row_count = 0
    /\ msg_index = 0
    /\ dt_date = FallbackDate
    /\ dt_time = FallbackTime
    /\ sens_idx = 0
    /\ li = 0
    /\ rowsSeen = <<>>
    /\ lineTags = <<>>
    /\ call = [fn |-> "none"]
    /\ result = [tag |-> "none"]

\* WriteLine as it would be if a line went in front of those written
WriteLineFirst(file, line) == [file EXCEPT !.lines = <<line>> \o @]

\* out.write(line + '\n')
WriteLine(file, line) == [file EXCEPT !.lines = Append(@, line)]

\* groups[key] += 1 on a defaultdict(int), line 96
Bump(g, key) ==
    [k \in DOMAIN g \cup {key} |->
        IF k = key THEN (IF key \in DOMAIN g THEN g[key] + 1 ELSE 1) ELSE g[k]]

\* where the code goes after the header or after a continuation line:
\* the loop tests of lines 125 and 147
AfterLine(idx, lineNo) ==
    IF idx < SENSOR_COUNT /\ lineNo < Len(LineSpans(layout)) THEN "schema"
    ELSE IF idx < SENSOR_COUNT THEN "fallback"
    ELSE "rowend"

\* CsvMissing as it would be if the output were opened before the check
CsvMissingAfterOpen ==
    /\ pc = "start"
    /\ ~csvExists
    /\ outFile' = [exists |-> TRUE, lines |-> <<>>]
    /\ pc' = "returned"
    /\ ret' = 1
    /\ UNCHANGED <<csvExists, layoutExists, layout, groups, row, row_count,
                   msg_index, dt_date, dt_time, sens_idx, li, rowsSeen, lineTags,
                   call, result>>

\* lines 79-81
CsvMissing ==
    /\ pc = "start"
    /\ ~csvExists
    /\ pc' = "returned"
    /\ ret' = 1
    /\ UNCHANGED <<csvExists, layoutExists, layout, outFile, groups, row, row_count,
                   msg_index, dt_date, dt_time, sens_idx, li, rowsSeen, lineTags,
                   call, result>>

\* lines 82-85 and 58-61
LayoutMissing ==
    /\ pc = "start"
    /\ csvExists
    /\ ~layoutExists
    /\ pc' = "returned"
    /\ ret' = 2
    /\ UNCHANGED <<csvExists, layoutExists, layout, outFile, groups, row, row_count,
                   msg_index, dt_date, dt_time, sens_idx, li, rowsSeen, lineTags,
                   call, result>>

\* lines 87-93: out_path.open('w') creates or truncates the output
Open ==
    /\ pc = "start"
    /\ csvExists
    /\ layoutExists
    /\ outFile' = [exists |-> TRUE, lines |-> <<>>]
    /\ groups' = <<>>
    /\ row_count' = 0
    /\ pc' = "reading"
    /\ UNCHANGED <<csvExists, layoutExists, layout, ret, row, msg_index, dt_date,
                   dt_time, sens_idx, li, rowsSeen, lineTags, call, result>>

\* lines 94-124: the reader yields a row; its key, header and tokens
ReadRow ==
    /\ pc = "reading"
    /\ Len(rowsSeen) < MaxRows
    /\ \E r \in Rows :
        /\ row' = r
        /\ rowsSeen' = Append(rowsSeen, r)
        /\ IF KeyRaises(r)
           THEN /\ pc' = "raised"
                /\ UNCHANGED <<outFile, groups, msg_index, dt_date, dt_time,
                               sens_idx, li, lineTags>>
           ELSE /\ groups' = Bump(groups, Key(r))
                /\ msg_index' = groups'[Key(r)]
                /\ outFile' = WriteLine(outFile, Header(r, msg_index'))
                /\ lineTags' = Append(lineTags, [row |-> Len(rowsSeen'), kind |-> "header",
                                                 placed |-> <<>>])
                /\ dt_date' = ParseMsgDate(r.MessageDate).date
                /\ dt_time' = ParseMsgDate(r.MessageDate).time
                /\ sens_idx' = 0
                /\ li' = 0
                /\ pc' = AfterLine(0, 0)
    /\ UNCHANGED <<csvExists, layoutExists, layout, ret, row_count, call, result>>

\* what a continuation line does to the state: written, or the run is left
Emit(line, kind, nextLi) ==
    /\ IF line.tag = "ret"
       THEN /\ outFile' = WriteLine(outFile, Written(line.buf))
            /\ lineTags' = Append(lineTags, [row |-> Len(rowsSeen), kind |-> kind,
                                             placed |-> line.placed])
            /\ sens_idx' = line.sens_idx
            /\ li' = nextLi
            /\ pc' = AfterLine(sens_idx', li')
       ELSE /\ pc' = IF line.tag = "hang" THEN "hung" ELSE "raised"
            /\ UNCHANGED <<outFile, lineTags, sens_idx, li>>
    /\ UNCHANGED <<csvExists, layoutExists, layout, ret, groups, row, row_count,
                   msg_index, dt_date, dt_time, rowsSeen, call, result>>

\* lines 125-145: one turn of the schema loop
SchemaLine ==
    /\ pc = "schema"
    /\ Emit(SchemaLineOf(layout, row, dt_date, dt_time, li, sens_idx), "schema", li + 1)

\* lines 147-160: one turn of the fallback loop
FallbackLine ==
    /\ pc = "fallback"
    /\ Emit(FallbackLineOf(layout, row, sens_idx), "fallback", li)

\* line 161
EndRow ==
    /\ pc = "rowend"
    /\ row_count' = row_count + 1
    /\ pc' = "reading"
    /\ UNCHANGED <<csvExists, layoutExists, layout, outFile, ret, groups, row,
                   msg_index, dt_date, dt_time, sens_idx, li, rowsSeen, lineTags,
                   call, result>>

\* lines 94 and 163-164: the reader is exhausted
Finish ==
    /\ pc = "reading"
    /\ pc' = "returned"
    /\ ret' = 0
    /\ UNCHANGED <<csvExists, layoutExists, layout, outFile, groups, row, row_count,
                   msg_index, dt_date, dt_time, sens_idx, li, rowsSeen, lineTags,
                   call, result>>

Next ==
    \/ CsvMissing
    \/ LayoutMissing
    \/ Open
    \/ ReadRow
    \/ SchemaLine
    \/ FallbackLine
    \/ EndRow
    \/ Finish

Spec == Init /\ [][Next]_vars

----------------------------------------------------------------------------
(* compare.py, parse_records, lines 16-37, on the lines of a file.         *)

\* IsHeaderLine as it would be if it asked for more than 5 digits
IsHeaderLineLonger(line) ==
    /\ line # <<>>
    /\ IsDigitChar(line[1])
    /\ \E i \in 1..Len(line) : line[i] = " "
    /\ AllDigits(SplitWs(line)[1])
    /\ Len(SplitWs(line)[1]) > 5

\* line 25: the header test
IsHeaderLine(line) ==
    /\ line # <<>>
    /\ IsDigitChar(line[1])
    /\ \E i \in 1..Len(line) : line[i] = " "
    /\ AllDigits(SplitWs(line)[1])
    /\ Len(SplitWs(line)[1]) >= 5

\* lines 21-34: one line of the file, st = [recs, cur]
RecordStep(st, line) ==
    IF line = <<>> THEN st
    ELSE IF IsHeaderLine(line)
    THEN [recs |-> IF st.cur # <<>> THEN Append(st.recs, st.cur) ELSE st.recs,
          cur  |-> <<line>>]
    ELSE [recs |-> st.recs, cur |-> Append(st.cur, line)]

RECURSIVE RecordLoop(_, _)
RecordLoop(st, lines) ==
    IF lines = <<>> THEN st ELSE RecordLoop(RecordStep(st, lines[1]), Tail(lines))

\* lines 35-37
Flush(st) == IF st.cur # <<>> THEN Append(st.recs, st.cur) ELSE st.recs

ParseRecords(lines) == Flush(RecordLoop([recs |-> <<>>, cur |-> <<>>], lines))

----------------------------------------------------------------------------
(* Direct calls of fmt_exp_field and place_into_line, and of the timestamp *)
(* code of convert, on inputs drawn from bounded sets.                     *)

MaxWidth == 12    \* widths 0..MaxWidth
MaxBufLen == 5    \* buffers of 1..MaxBufLen characters

Idle ==
    /\ csvExists = TRUE
    /\ layoutExists = TRUE
    /\ layout = LayDefault
    /\ outFile = NoFile
    /\ pc = "idle"
    /\ ret = -1
    /\ groups = <<>>
    /\ row = RowScenario
    /\ row_count = 0
    /\ msg_index = 0
    /\ dt_date = FallbackDate
    /\ dt_time = FallbackTime
    /\ sens_idx = 0
    /\ li = 0
    /\ rowsSeen = <<>>
    /\ lineTags = <<>>
    /\ call = [fn |-> "none"]
    /\ result = [tag |-> "none"]

FmtValues ==
    {NoneVal, <<>>, <<" "," ">>, <<"a","b","c">>, <<"1",".","5",".","2">>, <<"0">>, <<"-","0",".","0">>, <<"1","e","-","9","9","9">>,
     <<"3",".","1","4">>, <<"-","2","5","0">>, <<"0",".","0","0","5">>, <<"9",".","9","9","9","9","9","6">>, <<"1","2">>, <<" ","1","2"," ">>, <<"1","e","5">>,
     <<"0",".","0","9">>, <<"-","0",".","0","0","0","1","2","3">>, <<"1","2","3","4","5","6",".","7","8","9">>, <<"9","9","9","9","9",".","9","6">>, <<"n","a","n">>,
     <<"i","n","f">>, <<"-","I","n","f","i","n","i","t","y">>, <<"1","e","9","9","9">>}

CallFmt ==
    /\ call.fn = "none"
    /\ \E val \in FmtValues, w \in 0..MaxWidth :
          /\ call' = [fn |-> "fmt_exp_field", val |-> val, width |-> w]
          /\ result' = FmtExpField(val, w)
    /\ UNCHANGED mainVars

SpecFmt == Idle /\ [][CallFmt]_vars

Letters == <<"a","b","c","d","e","f","g","h","i","j","k","l","m","n","o","p","q","r","s","t","u","v","w","x","y","z">>
PlaceTexts == {<<>>, <<"X">>, <<"X","Y">>, <<"X","Y","Z">>, <<"W","X","Y","Z">>, <<"V","W","X","Y","Z">>, <<" ","Q">>}

CallPlace ==
    /\ call.fn = "none"
    /\ \E L \in 1..MaxBufLen :
         \E s \in 0..(L + 1), e \in 0..(L + 1), text \in PlaceTexts :
           /\ call' = [fn |-> "place_into_line", buf |-> SubSeq(Letters, 1, L),
                       span |-> <<s, e>>, text |-> text]
           /\ result' = PlaceIntoLine(call'.buf, call'.span, call'.text)
    /\ UNCHANGED mainVars

SpecPlace == Idle /\ [][CallPlace]_vars

DateParts == {<<"0","1","/","0","2","/","2","0","2","0">>, <<"1","/","2","/","2","0">>, <<"3","1","/","1","2","/","1","2","3","4","5">>, <<"0","1","-","0","2","-","2","0","2","0">>, <<"0","1","/","0","2">>,
              <<"1","/","2","/","3","/","4">>, <<"/","/">>, <<>>}
TimeParts == {<<"1","3",":","0","5">>, <<"3",":","5">>, <<"1","3",":","0","5",":","0","9">>, <<"1","3">>, <<":">>, <<"1",":","2",":","3",":","4">>, <<"1","3",":","0","5"," ","x">>, <<>>}
Gaps == {<<" ">>, <<" "," ">>, <<>>}

MsgDates == {NoneVal} \cup {d \o g \o t : d \in DateParts, g \in Gaps, t \in TimeParts}

CallParse ==
    /\ call.fn = "none"
    /\ \E msgdate \in MsgDates :
          /\ call' = [fn |-> "msgdate", msgdate |-> msgdate]
          /\ result' = ParseMsgDate(msgdate)
    /\ UNCHANGED mainVars

SpecParse == Idle /\ [][CallParse]_vars

----------------------------------------------------------------------------
(* What the histories say about the output.                                *)

\* the lines of the output belong to this run once it has opened the file
Opened == pc \notin {"start", "idle"} /\ ~(pc = "returned" /\ ret # 0)

\* the positions of the lines row i wrote, and the k-th of them
PosOf(i) == {p \in 1..Len(lineTags) : lineTags[p].row = i}

Kth(P, k) == CHOOSE p \in P : Cardinality({q \in P : q <= p}) = k

\* the continuation lines of row i written so far, as tags
ContTags(i) == SelectSeq(lineTags, LAMBDA t : t.row = i /\ t.kind # "header")

RECURSIVE FlattenPlaced(_)
FlattenPlaced(tags) ==
    IF tags = <<>> THEN <<>> ELSE tags[1].placed \o FlattenPlaced(Tail(tags))

\* the sensors placed for row i so far, in the order they were placed
PlacedOf(i) == FlattenPlaced(ContTags(i))

\* row i has reached line 161
Complete(i) == i <= row_count \/ (i = Len(rowsSeen) /\ pc = "rowend")

\* the rows up to the i-th that have the i-th row's key
SameKeyUpTo(i) ==
    Cardinality({j \in 1..i :
        /\ Strip(rowsSeen[j].Program) = Strip(rowsSeen[i].Program)
        /\ Strip(rowsSeen[j].PTT) = Strip(rowsSeen[i].PTT)})

\* the three characters of a header line that hold the message index
IndexField(p) ==
    LET r   == rowsSeen[lineTags[p].row]
        off == Len(ZFill(Str(r.Program), 5)) + 1 + Len(ZFill(Str(r.PTT), 6)) + 2
    IN SubSeq(outFile.lines[p], off + 1, off + 3)

----------------------------------------------------------------------------
\* C1: the message index written in the header of a row is the number of
\* rows read so far, this one included, that have its (Program, PTT) key;
\* so the rows of one key are numbered 1, 2, 3, ... however rows of other
\* keys are interleaved.
C1_SequenceNumbering ==
    \A p \in 1..Len(lineTags) :
        lineTags[p].kind = "header" =>
            IndexField(p) = RJust(IntToStr(SameKeyUpTo(lineTags[p].row)), 3)

\* three headers written, rows 1 and 3 of one key and row 2 of another
C1_Witness ==
    /\ Len(rowsSeen) = 3
    /\ pc = "returned"
    /\ Key(rowsSeen[1]) = Key(rowsSeen[3])
    /\ Key(rowsSeen[1]) # Key(rowsSeen[2])
    /\ rowsSeen[1] # rowsSeen[3]
    /\ IndexField(Kth(PosOf(3), 1)) = <<" "," ","2">>
    /\ IndexField(Kth(PosOf(2), 1)) = <<" "," ","1">>

----------------------------------------------------------------------------
\* the sensors a schema line holds: as many as it has spans, or those left
Min(a, b) == IF a < b THEN a ELSE b

SchemaTags(i) == SelectSeq(ContTags(i), LAMBDA t : t.kind = "schema")

FallbackTags(i) == SelectSeq(ContTags(i), LAMBDA t : t.kind = "fallback")

\* the spans a line used are the first spans of the list it was given
UsesSpans(tag, spans) ==
    /\ Len(tag.placed) <= Len(spans)
    /\ \A k \in 1..Len(tag.placed) : tag.placed[k].span = spans[k]

\* What C2 says, of the rows that reach line 161 and of the lines written so
\* far of the others: the continuation lines of a row place the sensors in
\* index order, each once; a row whose encoding is complete has all 22 placed; the schema
\* lines come first, each taking its spans in order until the sensors run
\* out, and fallback lines are written only once every schema line has been
\* used.
C2_SensorConservation ==
    \A i \in 1..Len(rowsSeen) :
        /\ \A k \in 1..Len(PlacedOf(i)) : PlacedOf(i)[k].sensor = k
        /\ Complete(i) => Len(PlacedOf(i)) = SENSOR_COUNT
        /\ ContTags(i) = SchemaTags(i) \o FallbackTags(i)
        /\ Len(SchemaTags(i)) <= Len(LineSpans(layout))
        /\ FallbackTags(i) # <<>> => Len(SchemaTags(i)) = Len(LineSpans(layout))
        /\ \A k \in 1..Len(SchemaTags(i)) :
              /\ UsesSpans(SchemaTags(i)[k], LineSpans(layout)[k])
              /\ Len(SchemaTags(i)[k].placed) =
                    Min(Len(LineSpans(layout)[k]),
                        SENSOR_COUNT - Len(FlattenPlaced(SubSeq(SchemaTags(i), 1, k - 1))))
        /\ \A k \in 1..Len(FallbackTags(i)) : UsesSpans(FallbackTags(i)[k], FallbackSpans)

\* a complete row with a schema line of four spans, one of none, and fallback lines
C2_Witness ==
    /\ Len(rowsSeen) >= 1
    /\ Complete(1)
    /\ Len(SchemaTags(1)) = 2
    /\ Len(SchemaTags(1)[1].placed) = 4
    /\ SchemaTags(1)[2].placed = <<>>
    /\ Len(FallbackTags(1)) = 3
    /\ Len(PlacedOf(1)) = SENSOR_COUNT

\* a complete row that needed no fallback line: the sensors ran out on a schema line
C2_WitnessNoFallback ==
    /\ Len(rowsSeen) >= 1
    /\ Complete(1)
    /\ FallbackTags(1) = <<>>
    /\ Len(SchemaTags(1)) = 2
    /\ Len(SchemaTags(1)[2].placed) < Len(LineSpans(layout)[2])

\* the row has a value in each of its 22 sensor fields
HasSensors(r) == \A k \in 1..SENSOR_COUNT : Sensors(r)[k] # NoneVal

\* every span the layout gives a row, the fallback spans included, lies
\* within the line
SpansFit(lay) ==
    /\ \A n \in 1..Len(LineSpans(lay)) : \A k \in 1..Len(LineSpans(lay)[n]) :
          /\ 1 <= LineSpans(lay)[n][k][1]
          /\ LineSpans(lay)[n][k][1] <= LineSpans(lay)[n][k][2]
          /\ LineSpans(lay)[n][k][2] <= LineLength(lay)
    /\ \A k \in 1..Len(FallbackSpans) : FallbackSpans[k][2] <= LineLength(lay)

\* the run is no longer writing lines for row i
Left(i) == i < Len(rowsSeen) \/ pc \notin {"schema", "fallback"}

\* C2: for a row with 22 sensor values and any layout whose spans lie within
\* the line, the continuation lines the run writes for the row place each of
\* the sensors 1..22 exactly once, in index order, schema lines first and
\* fallback lines only after every schema line has been used.
C2_EachSensorOnce ==
    \A i \in 1..Len(rowsSeen) :
        (HasSensors(rowsSeen[i]) /\ SpansFit(layout) /\ Left(i)) =>
            /\ [k \in 1..Len(PlacedOf(i)) |-> PlacedOf(i)[k].sensor] =
                  [k \in 1..SENSOR_COUNT |-> k]
            /\ ContTags(i) = SchemaTags(i) \o FallbackTags(i)
            /\ FallbackTags(i) # <<>> => Len(SchemaTags(i)) = Len(LineSpans(layout))

----------------------------------------------------------------------------
\* the first continuation line of a row
FirstCont(p) == p > 1 /\ lineTags[p].kind # "header" /\ lineTags[p - 1].kind = "header"

\* columns s..e of a written line (the line has lost its trailing spaces)
Columns(line, s, e) == SubSeq(LJust(line, e), s, e)

\* C3: with a schema that has no lines, the first fallback line of a row
\* carries the date token at columns 7-16, the time token at columns 18-25
\* and the compression index at column 28, and sensors 1..6 at the
\* fallback spans.
C3_StampOnFallbackLine ==
    \A p \in 1..Len(lineTags) :
        (LineSpans(layout) = <<>> /\ FirstCont(p)) =>
            LET r == rowsSeen[lineTags[p].row] IN
            /\ Columns(outFile.lines[p], 7, 16) = Fitted(ParseMsgDate(r.MessageDate).date, 10)
            /\ Columns(outFile.lines[p], 18, 25) = Fitted(ParseMsgDate(r.MessageDate).time, 8)
            /\ Columns(outFile.lines[p], 28, 28) = Fitted(Comp(r), 1)
            /\ lineTags[p].kind = "fallback"
            /\ Len(lineTags[p].placed) = 6
            /\ UsesSpans(lineTags[p], FallbackSpans)

\* what the code writes there: sensors 1 and 2 at columns 7-16 and 18-25
C3_Observed ==
    \A p \in 1..Len(lineTags) :
        (LineSpans(layout) = <<>> /\ FirstCont(p)) =>
            LET r == rowsSeen[lineTags[p].row] IN
            /\ Columns(outFile.lines[p], 7, 16) =
                   FmtExpField(ZeroIfMissing(r.sensors[1]), 10).text
            /\ Columns(outFile.lines[p], 18, 25) =
                   FmtExpField(ZeroIfMissing(r.sensors[2]), 8).text

----------------------------------------------------------------------------
\* the line the code builds for position p, from the row and what the row
\* had placed before it
ExpectedLine(p) ==
    LET i      == lineTags[p].row
        r      == rowsSeen[i]
        before == SelectSeq(SubSeq(lineTags, 1, p - 1),
                            LAMBDA t : t.row = i /\ t.kind # "header")
        ts     == ParseMsgDate(r.MessageDate)
    IN CASE lineTags[p].kind = "header" -> Header(r, SameKeyUpTo(i))
         [] lineTags[p].kind = "schema" ->
                Written(SchemaLineOf(layout, r, ts.date, ts.time, Len(before),
                                     Len(FlattenPlaced(before))).buf)
         [] lineTags[p].kind = "fallback" ->
                Written(FallbackLineOf(layout, r, Len(FlattenPlaced(before))).buf)

\* the lines written follow the rows: the first is the header of row 1; a
\* header comes after a row that has placed all its sensors and belongs to
\* the next row; a continuation line belongs to the row of the line before
\* it, and no schema line comes after a fallback line
TagOrder ==
    Opened =>
        /\ Len(outFile.lines) = Len(lineTags)
        /\ \A p \in 1..Len(lineTags) :
            /\ p = 1 => lineTags[p].kind = "header" /\ lineTags[p].row = 1
            /\ p > 1 =>
                \/ /\ lineTags[p].kind = "header"
                   /\ lineTags[p].row = lineTags[p - 1].row + 1
                   /\ Len(PlacedOf(lineTags[p - 1].row)) = SENSOR_COUNT
                \/ /\ lineTags[p].kind # "header"
                   /\ lineTags[p].row = lineTags[p - 1].row
                   /\ ~(lineTags[p - 1].kind = "fallback" /\ lineTags[p].kind = "schema")

\* the file starts empty, and a step leaves its lines alone or adds one
\* line after them
AppendOnly ==
    /\ (~Opened /\ Opened') => outFile'.lines = <<>>
    /\ (Opened /\ Opened') =>
          \/ outFile'.lines = outFile.lines
          \/ /\ Len(outFile'.lines) = Len(outFile.lines) + 1
             /\ SubSeq(outFile'.lines, 1, Len(outFile.lines)) = outFile.lines

\* the line written last is the line the code builds for its position
LastLineExpected ==
    (Opened /\ lineTags # <<>>) =>
        outFile.lines[Len(lineTags)] = ExpectedLine(Len(lineTags))

\* C4: the output is, row by row in input order, the header of the row and
\* then its continuation lines, schema lines before fallback lines: lines
\* are only ever added at the end, a header only after the row before it has
\* placed all its sensors, and a continuation line only after the header of
\* its row.
C4_LineOrder == [][AppendOnly]_vars /\ [](TagOrder /\ LastLineExpected)

\* two rows written in full, the first with schema and fallback lines
C4_Witness ==
    /\ pc = "returned"
    /\ ret = 0
    /\ Len(rowsSeen) = 2
    /\ rowsSeen[1] # rowsSeen[2]
    /\ SchemaTags(1) # <<>>
    /\ FallbackTags(1) # <<>>
    /\ Len(outFile.lines) = 2 * (1 + Len(ContTags(1)))

----------------------------------------------------------------------------
\* every row the reader yielded has its header and all its sensors in the file
AllRowsWritten ==
    /\ row_count = Len(rowsSeen)
    /\ Len(outFile.lines) = Len(lineTags)
    /\ \A i \in 1..Len(rowsSeen) :
          /\ \E p \in PosOf(i) : lineTags[p].kind = "header"
          /\ Len(PlacedOf(i)) = SENSOR_COUNT

\* a call with the CSV or the layout absent returns at once, 1 for the CSV
\* and otherwise 2, and leaves the output path as it found it
AbortStep ==
    (pc = "start" /\ ~(csvExists /\ layoutExists)) =>
        /\ pc' = "returned"
        /\ ret' = (IF ~csvExists THEN 1 ELSE 2)
        /\ outFile' = outFile

ReturnCodes ==
    pc = "returned" =>
        /\ ret \in {0, 1, 2}
        /\ ret = 1 <=> ~csvExists
        /\ ret = 2 <=> (csvExists /\ ~layoutExists)
        /\ ret = 0 => AllRowsWritten

\* C5: when the CSV or the layout file is absent convert returns before it
\* opens the output, which is neither created nor truncated nor written:
\* 1 when the CSV is not found, 2 when (the CSV being there) the layout is
\* not found; it returns 0 only when every row has been written.
C5_MissingInput == [][AbortStep]_vars /\ []ReturnCodes

\* the layout is missing and the file that was there is still there
C5_Witness == pc = "returned" /\ ret = 2 /\ outFile = OldFile

\* the CSV is missing and no output file has appeared
C5_WitnessCsv == pc = "returned" /\ ret = 1 /\ outFile = NoFile

----------------------------------------------------------------------------
\* C6: no row is left unfinished: whatever the row and the layout, convert
\* neither raises nor stays in a row for ever.
C6_NoRowAborts == pc \notin {"raised", "hung"}

----------------------------------------------------------------------------
\* the timestamp does not parse: it is missing or empty, or it does not
\* split on whitespace into two parts, or its first part does not split on
\* "/" into three
TsFailure(msgdate) ==
    \/ msgdate = NoneVal
    \/ msgdate = <<>>
    \/ Len(SplitWs(msgdate)) # 2
    \/ Len(SplitOn(SplitWs(msgdate)[1], "/")) # 3

\* C7: a timestamp that does not parse gives both fallback tokens; one that
\* parses gives a date token and a time token both made from the input:
\* never one token from the input and the other the fallback.
C7_TimestampFallback ==
    call.fn = "msgdate" =>
        IF TsFailure(call.msgdate)
        THEN result = [date |-> FallbackDate, time |-> FallbackTime]
        ELSE LET parts == SplitWs(call.msgdate)
                 dmy   == SplitOn(parts[1], "/")
             IN /\ result.date = DateToken(dmy[1], dmy[2], dmy[3])
                /\ result.time = TimeToken(parts[2])

\* a date part that would parse, with a third part after the time
C7_Witness ==
    /\ call.fn = "msgdate"
    /\ call.msgdate = <<"0","1","/","0","2","/","2","0","2","0"," ","1","3",":","0","5"," ","x">>
    /\ result = [date |-> FallbackDate, time |-> FallbackTime]

\* a time part of one component: the date is made from the input and so is the time
C7_WitnessParsed ==
    /\ call.fn = "msgdate"
    /\ call.msgdate = <<"0","1","/","0","2","/","2","0","2","0"," ","1","3">>
    /\ result = [date |-> <<"2","0","2","0","-","0","2","-","0","1">>, time |-> <<"1","3">>]

----------------------------------------------------------------------------
\* C8: after place((s, e), text) with 1 <= s <= e <= L the buffer still has
\* L characters, those outside s..e are the ones it had, and s..e hold the
\* first e-s+1 characters of the text, right-justified with leading spaces.
C8_PlacementFrame ==
    (call.fn = "place_into_line"
        /\ 1 <= call.span[1] /\ call.span[1] <= call.span[2]
        /\ call.span[2] <= Len(call.buf)) =>
        LET s     == call.span[1]
            e     == call.span[2]
            width == e - s + 1
            kept  == Min(Len(call.text), width)
            pad   == width - kept
        IN /\ result.tag = "ret"
           /\ Len(result.buf) = Len(call.buf)
           /\ \A i \in 1..Len(call.buf) :
                 (i < s \/ i > e) => result.buf[i] = call.buf[i]
           /\ \A k \in 1..width :
                 result.buf[s + k - 1] =
                     IF k <= pad THEN " " ELSE call.text[k - pad]

\* a text longer than a span strictly inside the buffer
C8_Witness ==
    /\ call.fn = "place_into_line"
    /\ call.buf = <<"a","b","c","d","e">>
    /\ call.span = <<2, 3>>
    /\ call.text = <<"W","X","Y","Z">>
    /\ result = [tag |-> "ret", buf |-> <<"a","W","X","d","e">>]

\* a text shorter than its span
C8_WitnessShort ==
    /\ call.fn = "place_into_line"
    /\ call.buf = <<"a","b","c","d","e">>
    /\ call.span = <<2, 4>>
    /\ call.text = <<"X">>
    /\ result = [tag |-> "ret", buf |-> <<"a"," "," ","X","e">>]

----------------------------------------------------------------------------
ZeroLiteral == <<".","0","0","0","0","0","E","+","0">>

\* the value is zero, missing, blank or not a number
ZeroLike(val) ==
    val \in {NoneVal, <<>>, <<" "," ">>, <<"a","b","c">>, <<"1",".","5",".","2">>, <<"0">>, <<"-","0",".","0">>, <<"1","e","-","9","9","9">>}

\* the last w characters of a token longer than w, or the token padded on
\* the left to w
Justified(token, w) ==
    IF Len(token) > w THEN SubSeq(token, Len(token) - w + 1, Len(token))
    ELSE [k \in 1..w |-> IF k <= w - Len(token) THEN " " ELSE token[k - (w - Len(token))]]

FmtContract ==
    /\ result.tag = "ret"
    /\ Len(result.text) = call.width
    /\ Rendered(Mant(call.val)).tag = "ret"
    /\ result.text = Justified(Rendered(Mant(call.val)).text, call.width)
    /\ ZeroLike(call.val) => result.text = Justified(ZeroLiteral, call.width)

\* C9: for every value and every width w >= 1 format(value, w) returns a
\* text of exactly w characters, the last w of the rendered token or the
\* token padded on the left; a zero, missing, blank or unparseable value
\* gives the literal .00000E+0 so justified.
C9_WidthInvariant ==
    (call.fn = "fmt_exp_field" /\ call.width >= 1) => FmtContract

\* the same of the values float() does not take for an infinity
C9_FiniteValues ==
    (call.fn = "fmt_exp_field" /\ call.width >= 1 /\ Mant(call.val).kind # "inf")
        => FmtContract

----------------------------------------------------------------------------
DigitsOnly(v) == v # NoneVal /\ AllDigits(v)

\* the rows whose header has been written
HeaderCount == Cardinality({p \in 1..Len(lineTags) : lineTags[p].kind = "header"})

\* the lines row i has written so far
RecordOf(i) == [k \in 1..Cardinality(PosOf(i)) |-> outFile.lines[Kth(PosOf(i), k)]]

\* What C10 says, of the rows that reach line 161 and of the lines written
\* so far of the others: with a schema that has no lines and rows whose
\* Program is all digits, parse_records of the converter's output gives one
\* record for each row that has its header, in input order: the row's header
\* and the row's fallback lines, four of them (6, 6, 6 and 4 sensors) once
\* the row is complete.
C10_RoundTrip ==
    (/\ Opened
     /\ LineSpans(layout) = <<>>
     /\ \A i \in 1..Len(rowsSeen) : DigitsOnly(rowsSeen[i].Program)) =>
        /\ ParseRecords(outFile.lines) = [i \in 1..HeaderCount |-> RecordOf(i)]
        /\ pc = "returned" => HeaderCount = Len(rowsSeen)
        /\ \A i \in 1..Len(rowsSeen) :
              Complete(i) =>
                  /\ Len(RecordOf(i)) = 5
                  /\ RecordOf(i)[1] = Header(rowsSeen[i], SameKeyUpTo(i))
                  /\ [k \in 1..4 |-> Len(ContTags(i)[k].placed)] = <<6, 6, 6, 4>>

\* three rows of digits converted with no schema lines and parsed back
C10_Witness ==
    /\ pc = "returned"
    /\ ret = 0
    /\ LineSpans(layout) = <<>>
    /\ Len(rowsSeen) = 3
    /\ \A i \in 1..3 : DigitsOnly(rowsSeen[i].Program)
    /\ rowsSeen[1] # rowsSeen[2]
    /\ Len(ParseRecords(outFile.lines)) = 3

\* the run has stopped: it returned, raised or will never leave a loop
Stopped == pc \in {"returned", "raised", "hung"}

\* C10: for rows whose Program is all digits, converted with a schema that
\* has no lines, parse_records of the output the run leaves has exactly one
\* record for each input row, in input order, each the row's header followed
\* by its 4 fallback lines of 6, 6, 6 and 4 sensors.
C10_OneRecordPerRow ==
    (/\ Opened
     /\ Stopped
     /\ LineSpans(layout) = <<>>
     /\ \A i \in 1..Len(rowsSeen) : DigitsOnly(rowsSeen[i].Program)) =>
        /\ Len(ParseRecords(outFile.lines)) = Len(rowsSeen)
        /\ \A i \in 1..Len(rowsSeen) :
              /\ Len(ParseRecords(outFile.lines)[i]) = 5
              /\ ParseRecords(outFile.lines)[i][1] = Header(rowsSeen[i], SameKeyUpTo(i))
              /\ ParseRecords(outFile.lines)[i] = RecordOf(i)
              /\ [k \in 1..4 |-> Len(ContTags(i)[k].placed)] = <<6, 6, 6, 4>>
=============================================================================
